---- MODULE Spec2Model ----
(***************************************************************************)
(* A model of the loopp event loop: the registration table, the wakeup     *)
(* channel, the two backend drivers (epoll and select) and the dispatcher. *)
(* One loop thread runs start(); add_fd, remove_fd and stop are called     *)
(* from another thread ("ext") and from inside callbacks ("cb").           *)
(***************************************************************************)
EXTENDS Integers, Sequences, FiniteSets, TLC

\* ------------------------------------------------------------------ bounds

\* Number of descriptors the callers own.
NumFds == 2
\* Number of add_fd / remove_fd / stop calls of the other thread in one behaviour.
MaxCalls == 2
\* Number of add_fd / remove_fd / stop calls made by callbacks in one behaviour.
MaxCbCalls == 1
\* Number of readiness changes and signals in one behaviour.
MaxEnv == 2
\* Capacity of the wakeup channel (pipe buffer / eventfd counter), in pokes.
WakeupCap == 2
\* The budgets of the specification with fairness.
LiveCalls == 2
LiveEnv == 1
\* The calls of the other thread in the specification that fills the wakeup channel.
PokeCalls == 3

\* ------------------------------------------------------------------ types

\* The number of the read side of the wakeup channel.
wakeup_fd_ == 2

UserFds == (1..(NumFds + 1)) \ {wakeup_fd_}

EventType == {"READ", "WRITE"}

EventCallback == {"cb1", "cb2"}

Contexts == {"ext", "cb"}

\* What the kernel can report of a descriptor.
Conditions == {"readable", "writable", "hangup"}

Pairs == (UserFds \cup {wakeup_fd_}) \X EventType

\* ------------------------------------------------------------------ maps

Contains(m, k) == k \in DOMAIN m

Erase(m, k) == [x \in (DOMAIN m) \ {k} |-> m[x]]

Put(m, k, v) == [x \in (DOMAIN m) \cup {k} |-> IF x = k THEN v ELSE m[x]]

EmptyMap == [x \in {} |-> 0]

\* std::multiset<int>, as a map from element to its count.
MultisetInsert(s, x) == Put(s, x, IF Contains(s, x) THEN s[x] + 1 ELSE 1)

MultisetEraseOne(s, x) == IF s[x] = 1 THEN Erase(s, x) ELSE Put(s, x, s[x] - 1)

SetMax(S) == CHOOSE x \in S : \A y \in S : y <= x

\* All the orders in which the elements of S can be listed.
Orders(S) == {o \in [1..Cardinality(S) -> S] : \A x \in S : \E i \in DOMAIN o : o[i] = x}

\* ------------------------------------------------------------------ state

VARIABLES
    backend,            \* which EventLoop implementation create() built
    dom,                \* what callers pass and what the peers of their descriptors do
    is_running_,
    event_callbacks_,   \* fd -> (EventType -> EventCallback)
    mutex_,             \* "free", or who holds it: "loop", "ext", "cb"
    epoll_set,          \* epoll backend: the kernel's interest list, fd -> mask
    read_set_,          \* select backend: the read bitmap
    write_set_,         \* select backend: the write bitmap
    fds_,               \* select backend: the multiset of tracked descriptors
    wakeup_pending,     \* pokes written to the wakeup channel and not yet read
    ready,              \* environment: the conditions of each caller descriptor
    loop_pc,            \* where the thread inside start() is
    events,             \* epoll backend: what epoll_wait returned
    sel,                \* select backend: max_fd and the bitmap copies of start()
    ready_events,       \* the batch collected under the mutex
    idx,                \* position of the dispatcher in ready_events
    call,               \* per context: the call in progress, or the last one
    budget,             \* calls and readiness changes left
    everReady,          \* history: descriptors that have been ready
    quietRemoved,       \* history: pairs removed before their descriptor was ever ready
    waitAdded,          \* history: pairs registered while the loop was blocked in wait
    cbRemoved,          \* history: pairs a callback's remove_fd removed, not registered since
    cbAdded,            \* history: pairs a callback registered during the current batch,
                        \* no earlier registration of which awaited its turn in the batch
    early_stop,         \* history: a stop found the loop not yet started
    stop_won            \* history: a stop changed the running flag from true to false

vars == <<backend, dom, is_running_, event_callbacks_, mutex_, epoll_set,
          read_set_, write_set_, fds_, wakeup_pending, ready, loop_pc, events, sel,
          ready_events, idx, call, budget, everReady, quietRemoved, waitAdded,
          cbRemoved, cbAdded, early_stop, stop_won>>

tableVars == <<event_callbacks_, epoll_set, read_set_, write_set_, fds_>>

loopVars == <<loop_pc, events, sel, ready_events, idx>>

histVars == <<everReady, quietRemoved, waitAdded, cbRemoved, cbAdded, early_stop, stop_won>>

NoCall == [op |-> "none", pc |-> "idle", fd |-> 0, type |-> "READ", cb |-> "cb1",
           ret |-> "none", path |-> "none"]

NoSel == [max_fd |-> -1, read_set |-> {}, write_set |-> {}]

\* ------------------------------------------------------------------ kernel

\* The conditions the kernel sees on a descriptor: the wakeup channel is readable
\* while a poke is pending, a caller's descriptor is whatever its peer made it.
ConditionsOf(fd) ==
    IF fd = wakeup_fd_
    THEN (IF wakeup_pending > 0 THEN {"readable"} ELSE {})
    ELSE ready[fd]

\* epoll_ctl(2): ADD of a descriptor already in the interest list fails (EEXIST),
\* MOD and DEL of one that is not fail (ENOENT), and the kernel may refuse any
\* operation (fails: ENOMEM, EPERM, EBADF). A failed operation changes nothing.
epoll_ctl(set, op, fd, mask, fails) ==
    IF fails \/ (op = "ADD" /\ Contains(set, fd)) \/ (op # "ADD" /\ ~Contains(set, fd))
    THEN [rc |-> -1, set |-> set]
    ELSE [rc |-> 0, set |-> IF op = "DEL" THEN Erase(set, fd) ELSE Put(set, fd, mask)]

\* The event mask epoll_wait reports for a descriptor of the interest list:
\* the requested bits that are ready, and EPOLLHUP whether requested or not.
Revents(fd) ==
    {b \in epoll_set[fd] :
        \/ (b = "EPOLLIN" /\ "readable" \in ConditionsOf(fd))
        \/ (b = "EPOLLOUT" /\ "writable" \in ConditionsOf(fd))}
    \cup (IF "hangup" \in ConditionsOf(fd) THEN {"EPOLLHUP"} ELSE {})

EpollReadyFds == {fd \in DOMAIN epoll_set : Revents(fd) # {}}

\* select(2) on the copies: the descriptors below the ceiling that are set in a
\* bitmap and ready. A hangup makes a descriptor readable.
SelectReadable ==
    {fd \in sel.read_set :
        fd < sel.max_fd + 1 /\ ConditionsOf(fd) \cap {"readable", "hangup"} # {}}

SelectWritable ==
    {fd \in sel.write_set : fd < sel.max_fd + 1 /\ "writable" \in ConditionsOf(fd)}

\* write(2) of one poke to the non-blocking wakeup channel.
write_wakeup(pending) ==
    IF pending >= WakeupCap
    THEN [rc |-> -1, errno |-> "EAGAIN", pending |-> pending]
    ELSE [rc |-> 1, errno |-> "none", pending |-> pending + 1]

\* ------------------------------------------------------------------ add_fd / remove_fd

Registered(tbl, fd, type) == Contains(tbl, fd) /\ Contains(tbl[fd], type)

\* event_callbacks_[fd][type] = callback
Register(tbl, fd, type, cb) ==
    Put(tbl, fd, Put(IF Contains(tbl, fd) THEN tbl[fd] ELSE EmptyMap, type, cb))

\* The epoll mask of the interests of one descriptor's callbacks.
EpollMask(callbacks) ==
    (IF Contains(callbacks, "READ") THEN {"EPOLLIN"} ELSE {})
    \cup (IF Contains(callbacks, "WRITE") THEN {"EPOLLOUT"} ELSE {})

EventBit(type) == IF type = "READ" THEN {"EPOLLIN"} ELSE {"EPOLLOUT"}

\* add_fd_epoll with the early return taken after binding the new callback.
add_fd_epoll_rebinding(tbl, set, fd, type, cb, fails) ==
    IF Registered(tbl, fd, type)
    THEN [path |-> "noop", op |-> "none", mask |-> {}, tbl |-> Register(tbl, fd, type, cb), set |-> set]
    ELSE LET existing == IF Contains(tbl, fd) THEN EpollMask(tbl[fd]) ELSE {}
             op == IF Contains(tbl, fd) THEN "MOD" ELSE "ADD"
             mask == existing \cup EventBit(type)
             r == epoll_ctl(set, op, fd, mask, fails)
         IN  IF r.rc = -1
             THEN [path |-> "error", op |-> op, mask |-> mask, tbl |-> tbl, set |-> set]
             ELSE [path |-> "full", op |-> op, mask |-> mask,
                   tbl |-> Register(tbl, fd, type, cb), set |-> r.set]

\* add_fd_epoll that always asks the kernel for EPOLL_CTL_ADD.
add_fd_epoll_always_adding(tbl, set, fd, type, cb, fails) ==
    IF Registered(tbl, fd, type)
    THEN [path |-> "noop", op |-> "none", mask |-> {}, tbl |-> tbl, set |-> set]
    ELSE LET existing == IF Contains(tbl, fd) THEN EpollMask(tbl[fd]) ELSE {}
             op == "ADD"
             mask == existing \cup EventBit(type)
             r == epoll_ctl(set, op, fd, mask, fails)
         IN  IF r.rc = -1
             THEN [path |-> "error", op |-> op, mask |-> mask, tbl |-> tbl, set |-> set]
             ELSE [path |-> "full", op |-> op, mask |-> mask,
                   tbl |-> Register(tbl, fd, type, cb), set |-> r.set]

\* EventLoopEpoll::add_fd up to its wakeup(): path "noop" (already registered,
\* returns true), "error" (epoll_ctl failed, returns false) or "full"; op and
\* mask are what it passed to epoll_ctl.
add_fd_epoll(tbl, set, fd, type, cb, fails) ==
    IF Registered(tbl, fd, type)
    THEN [path |-> "noop", op |-> "none", mask |-> {}, tbl |-> tbl, set |-> set]
    ELSE LET existing == IF Contains(tbl, fd) THEN EpollMask(tbl[fd]) ELSE {}
             op == IF Contains(tbl, fd) THEN "MOD" ELSE "ADD"
             mask == existing \cup EventBit(type)
             r == epoll_ctl(set, op, fd, mask, fails)
         IN  IF r.rc = -1
             THEN [path |-> "error", op |-> op, mask |-> mask, tbl |-> tbl, set |-> set]
             ELSE [path |-> "full", op |-> op, mask |-> mask,
                   tbl |-> Register(tbl, fd, type, cb), set |-> r.set]

\* EventLoopEpoll::remove_fd up to its wakeup(). The callback is erased before
\* the kernel is asked; when the kernel refuses, the function returns false
\* with the erased table.
remove_fd_epoll(tbl, set, fd, type, fails) ==
    IF ~Registered(tbl, fd, type)
    THEN [path |-> "noop", op |-> "none", mask |-> {}, tbl |-> tbl, set |-> set]
    ELSE LET erased == Put(tbl, fd, Erase(tbl[fd], type))
         IN  IF DOMAIN erased[fd] = {}
             THEN LET r == epoll_ctl(set, "DEL", fd, {}, fails)
                  IN  IF r.rc = -1
                      THEN [path |-> "error", op |-> "DEL", mask |-> {},
                            tbl |-> erased, set |-> set]
                      ELSE [path |-> "full", op |-> "DEL", mask |-> {},
                            tbl |-> Erase(erased, fd), set |-> r.set]
             ELSE LET mask == EpollMask(erased[fd])
                      r == epoll_ctl(set, "MOD", fd, mask, fails)
                  IN  IF r.rc = -1
                      THEN [path |-> "error", op |-> "MOD", mask |-> mask,
                            tbl |-> erased, set |-> set]
                      ELSE [path |-> "full", op |-> "MOD", mask |-> mask,
                            tbl |-> erased, set |-> r.set]

\* FD_SETSIZE of <sys/select.h>.
FD_SETSIZE == 1024

\* add_fd_select that registers a descriptor whatever its number.
add_fd_select_without_ceiling(tbl, rs, ws, fds, fd, type, cb) ==
    IF Registered(tbl, fd, type)
    THEN [path |-> "noop", errno |-> "none", tbl |-> tbl, rs |-> rs, ws |-> ws, fds |-> fds]
    ELSE [path |-> "full", errno |-> "none",
          tbl |-> Register(tbl, fd, type, cb),
          rs |-> IF type = "READ" THEN rs \cup {fd} ELSE rs,
          ws |-> IF type = "WRITE" THEN ws \cup {fd} ELSE ws,
          fds |-> MultisetInsert(fds, fd)]

\* EventLoopSelect::add_fd up to its wakeup().
add_fd_select(tbl, rs, ws, fds, fd, type, cb) ==
    IF Registered(tbl, fd, type)
    THEN [path |-> "noop", errno |-> "none", tbl |-> tbl, rs |-> rs, ws |-> ws, fds |-> fds]
    ELSE IF fd >= FD_SETSIZE
    THEN [path |-> "error", errno |-> "EMFILE", tbl |-> tbl, rs |-> rs, ws |-> ws, fds |-> fds]
    ELSE [path |-> "full", errno |-> "none",
          tbl |-> Register(tbl, fd, type, cb),
          rs |-> IF type = "READ" THEN rs \cup {fd} ELSE rs,
          ws |-> IF type = "WRITE" THEN ws \cup {fd} ELSE ws,
          fds |-> MultisetInsert(fds, fd)]

\* remove_fd_select that clears the bitmap and the multiset but keeps the callback.
remove_fd_select_keeping_callback(tbl, rs, ws, fds, fd, type) ==
    IF ~Registered(tbl, fd, type)
    THEN [path |-> "noop", tbl |-> tbl, rs |-> rs, ws |-> ws, fds |-> fds]
    ELSE [path |-> "full",
          tbl |-> tbl,
          rs |-> IF type = "READ" THEN rs \ {fd} ELSE rs,
          ws |-> IF type = "WRITE" THEN ws \ {fd} ELSE ws,
          fds |-> MultisetEraseOne(fds, fd)]

\* remove_fd_select without its early return: an unregistered pair is cleared
\* from its bitmap and from the multiset all the same.
remove_fd_select_unguarded(tbl, rs, ws, fds, fd, type) ==
    LET erased == IF Registered(tbl, fd, type) THEN Put(tbl, fd, Erase(tbl[fd], type)) ELSE tbl
    IN  [path |-> IF Registered(tbl, fd, type) THEN "full" ELSE "noop",
         tbl |-> IF Contains(erased, fd) /\ DOMAIN erased[fd] = {} THEN Erase(erased, fd) ELSE erased,
         rs |-> IF type = "READ" THEN rs \ {fd} ELSE rs,
         ws |-> IF type = "WRITE" THEN ws \ {fd} ELSE ws,
         fds |-> IF Contains(fds, fd) THEN MultisetEraseOne(fds, fd) ELSE fds]

\* remove_fd_select with fds_.erase(fd): every entry of the descriptor leaves
\* the multiset.
remove_fd_select_erasing_all(tbl, rs, ws, fds, fd, type) ==
    IF ~Registered(tbl, fd, type)
    THEN [path |-> "noop", tbl |-> tbl, rs |-> rs, ws |-> ws, fds |-> fds]
    ELSE LET erased == Put(tbl, fd, Erase(tbl[fd], type))
         IN  [path |-> "full",
              tbl |-> IF DOMAIN erased[fd] = {} THEN Erase(erased, fd) ELSE erased,
              rs |-> IF type = "READ" THEN rs \ {fd} ELSE rs,
              ws |-> IF type = "WRITE" THEN ws \ {fd} ELSE ws,
              fds |-> Erase(fds, fd)]

\* EventLoopSelect::remove_fd up to its wakeup().
remove_fd_select(tbl, rs, ws, fds, fd, type) ==
    IF ~Registered(tbl, fd, type)
    THEN [path |-> "noop", tbl |-> tbl, rs |-> rs, ws |-> ws, fds |-> fds]
    ELSE LET erased == Put(tbl, fd, Erase(tbl[fd], type))
         IN  [path |-> "full",
              tbl |-> IF DOMAIN erased[fd] = {} THEN Erase(erased, fd) ELSE erased,
              rs |-> IF type = "READ" THEN rs \ {fd} ELSE rs,
              ws |-> IF type = "WRITE" THEN ws \ {fd} ELSE ws,
              fds |-> MultisetEraseOne(fds, fd)]

\* wakeup(): "would block" counts as success.
wakeup(w) == IF w.rc = -1 THEN w.errno \in {"EAGAIN", "EWOULDBLOCK"} ELSE TRUE

\* The return value of stop() once it has poked the channel: the epoll backend
\* returns wakeup(), the select backend returns write(...) != -1.
stop_result(b, w) == IF b = "epoll" THEN wakeup(w) ELSE w.rc # -1

\* ------------------------------------------------------------------ construction

\* The state after create(): the constructor registers the wakeup descriptor
\* for READ (epoll) or sets it in the read bitmap and tracks it (select).
InitWith(calls, envs, fdNumbers, callbacks, conditions, kernelFails) ==
    /\ backend \in {"epoll", "select"}
    /\ dom = [fds |-> fdNumbers, cbs |-> callbacks, conds |-> conditions, fails |-> kernelFails]
    /\ is_running_ = FALSE
    /\ event_callbacks_ = EmptyMap
    /\ mutex_ = "free"
    /\ epoll_set = IF backend = "epoll" THEN Put(EmptyMap, wakeup_fd_, {"EPOLLIN"}) ELSE EmptyMap
    /\ read_set_ = IF backend = "select" THEN {wakeup_fd_} ELSE {}
    /\ write_set_ = {}
    /\ fds_ = IF backend = "select" THEN MultisetInsert(EmptyMap, wakeup_fd_) ELSE EmptyMap
    /\ wakeup_pending = 0
    /\ ready = [fd \in fdNumbers \ {wakeup_fd_} |-> {}]
    /\ loop_pc = "idle"
    /\ events = <<>>
    /\ sel = NoSel
    /\ ready_events = <<>>
    /\ idx = 0
    /\ call = [c \in Contexts |-> NoCall]
    /\ budget = [calls |-> calls, cb |-> MaxCbCalls, envs |-> envs]
    /\ everReady = {}
    /\ quietRemoved = {}
    /\ waitAdded = {}
    /\ cbRemoved = {}
    /\ cbAdded = {}
    /\ early_stop = FALSE
    /\ stop_won = FALSE

\* Callers pass descriptors they own (never the loop's own wakeup descriptor),
\* which become readable and writable.
Init == InitWith(MaxCalls, MaxEnv, UserFds, {"cb1"}, {"readable", "writable"}, BOOLEAN)

\* Callers register different callbacks.
InitCallbacks == InitWith(MaxCalls, 1, UserFds, EventCallback, {"readable", "writable"}, BOOLEAN)

\* Callers pass any descriptor number, the wakeup descriptor's included.
InitAnyFd == InitWith(MaxCalls, 1, UserFds \cup {wakeup_fd_}, {"cb1"}, {"readable", "writable"}, BOOLEAN)

InitLive == InitWith(LiveCalls, LiveEnv, UserFds, {"cb1"}, {"readable", "writable"}, BOOLEAN)

\* Callers pass a descriptor whose number is the ceiling of the select bitmaps.
InitBigFd == InitWith(MaxCalls, 1, {1, FD_SETSIZE}, {"cb1"}, {"readable", "writable"}, BOOLEAN)

\* The peers of the callers' descriptors hang up.
InitHangup == InitWith(MaxCalls, 1, UserFds, {"cb1"}, {"readable", "hangup"}, BOOLEAN)

\* The kernel refuses no epoll_ctl.
InitKernelOk == InitWith(MaxCalls, 1, UserFds, {"cb1"}, {"readable", "writable"}, {FALSE})

\* Callers use a single descriptor, which becomes readable and writable.
InitOneFd == InitWith(MaxCalls, MaxEnv, {1}, {"cb1"}, {"readable", "writable"}, BOOLEAN)

\* The other thread makes enough calls to fill the wakeup channel.
InitPokes == InitWith(PokeCalls, 1, UserFds, {"cb1"}, {"readable"}, BOOLEAN)

\* ------------------------------------------------------------------ start()

\* start() that enters the loop without storing true in the running flag.
StartWithoutStore ==
    /\ loop_pc = "idle"
    /\ loop_pc' = "top"
    /\ UNCHANGED <<backend, dom, is_running_, tableVars, mutex_, wakeup_pending, ready,
                   events, sel, ready_events, idx, call, budget, histVars>>

Start ==
    /\ loop_pc = "idle"
    /\ is_running_' = TRUE
    /\ loop_pc' = "top"
    /\ UNCHANGED <<backend, dom, tableVars, mutex_, wakeup_pending, ready, events,
                   sel, ready_events, idx, call, budget, histVars>>

\* while (is_running_.load())
LoopCheck ==
    /\ loop_pc = "top"
    /\ loop_pc' = IF ~is_running_ THEN "returned"
                  ELSE IF backend = "epoll" THEN "wait" ELSE "snapshot"
    /\ UNCHANGED <<backend, dom, is_running_, tableVars, mutex_, wakeup_pending,
                   ready, events, sel, ready_events, idx, call, budget, histVars>>

SnapshotLock ==
    /\ loop_pc = "snapshot"
    /\ mutex_ = "free"
    /\ mutex_' = "loop"
    /\ loop_pc' = "snapshot_locked"
    /\ UNCHANGED <<backend, dom, is_running_, tableVars, wakeup_pending, ready,
                   events, sel, ready_events, idx, call, budget, histVars>>

\* max_fd and the copies of the bitmaps, taken under the lock.
Snapshot(fds, rs, ws) ==
    [max_fd |-> IF DOMAIN fds = {} THEN -1 ELSE SetMax(DOMAIN fds),
     read_set |-> rs, write_set |-> ws]

SnapshotCopy ==
    /\ loop_pc = "snapshot_locked"
    /\ sel' = Snapshot(fds_, read_set_, write_set_)
    /\ mutex_' = "free"
    /\ loop_pc' = "wait"
    /\ UNCHANGED <<backend, dom, is_running_, tableVars, wakeup_pending, ready,
                   events, ready_events, idx, call, budget, histVars>>

\* epoll_wait returns the ready descriptors of the interest list, in any order.
EpollWait ==
    /\ loop_pc = "wait"
    /\ backend = "epoll"
    /\ EpollReadyFds # {}
    /\ \E o \in Orders(EpollReadyFds) :
          events' = [i \in DOMAIN o |-> [fd |-> o[i], events |-> Revents(o[i])]]
    /\ loop_pc' = "drain"
    /\ UNCHANGED <<backend, dom, is_running_, tableVars, mutex_, wakeup_pending,
                   ready, sel, ready_events, idx, call, budget, histVars>>

\* select returns with the copies reduced to the ready descriptors.
SelectWait ==
    /\ loop_pc = "wait"
    /\ backend = "select"
    /\ SelectReadable \cup SelectWritable # {}
    /\ sel' = [sel EXCEPT !.read_set = SelectReadable, !.write_set = SelectWritable]
    /\ loop_pc' = "drain"
    /\ UNCHANGED <<backend, dom, is_running_, tableVars, mutex_, wakeup_pending,
                   ready, events, ready_events, idx, call, budget, histVars>>

\* The wait returns -1 with EINTR and start() throws as for any other error.
WaitInterruptedThrowing ==
    /\ loop_pc = "wait"
    /\ budget.envs > 0
    /\ budget' = [budget EXCEPT !.envs = @ - 1]
    /\ sel' = NoSel
    /\ loop_pc' = "thrown"
    /\ UNCHANGED <<backend, dom, is_running_, tableVars, mutex_, wakeup_pending,
                   ready, events, ready_events, idx, call, histVars>>

\* The wait returns -1 with EINTR: continue.
WaitInterrupted ==
    /\ loop_pc = "wait"
    /\ budget.envs > 0
    /\ budget' = [budget EXCEPT !.envs = @ - 1]
    /\ sel' = NoSel
    /\ loop_pc' = "top"
    /\ UNCHANGED <<backend, dom, is_running_, tableVars, mutex_, wakeup_pending,
                   ready, events, ready_events, idx, call, histVars>>

\* The wait returns -1 with another error: start() throws std::system_error.
WaitFail ==
    /\ loop_pc = "wait"
    /\ sel' = NoSel
    /\ loop_pc' = "thrown"
    /\ UNCHANGED <<backend, dom, is_running_, tableVars, mutex_, wakeup_pending,
                   ready, events, ready_events, idx, call, budget, histVars>>

\* A drain that reads one poke and stops.
DrainedByOne(b, evs, pending) ==
    IF (b = "select" \/ (\E i \in DOMAIN evs : evs[i].fd = wakeup_fd_)) /\ pending > 0
    THEN pending - 1 ELSE pending

\* Drain the wakeup buffer: epoll only when the wakeup descriptor is among the
\* events, select on every return of the wait.
Drained(b, evs, pending) ==
    IF b = "select" \/ (\E i \in DOMAIN evs : evs[i].fd = wakeup_fd_) THEN 0 ELSE pending

Drain ==
    /\ loop_pc = "drain"
    /\ wakeup_pending' = Drained(backend, events, wakeup_pending)
    /\ loop_pc' = "collect"
    /\ UNCHANGED <<backend, dom, is_running_, tableVars, mutex_, ready, events,
                   sel, ready_events, idx, call, budget, histVars>>

\* The collection block entered without the lock guard.
CollectWithoutLock ==
    /\ loop_pc = "collect"
    /\ loop_pc' = "collecting"
    /\ UNCHANGED <<backend, dom, is_running_, tableVars, mutex_, wakeup_pending, ready,
                   events, sel, ready_events, idx, call, budget, histVars>>

CollectLock ==
    /\ loop_pc = "collect"
    /\ mutex_ = "free"
    /\ mutex_' = "loop"
    /\ loop_pc' = "collecting"
    /\ UNCHANGED <<backend, dom, is_running_, tableVars, wakeup_pending, ready,
                   events, sel, ready_events, idx, call, budget, histVars>>

Triple(tbl, fd, type) == [fd |-> fd, type |-> type, cb |-> tbl[fd][type]]

\* The epoll collection loop over events[0..ready_count).
RECURSIVE CollectEpoll(_, _)
CollectEpoll(evs, tbl) ==
    IF evs = <<>> THEN <<>>
    ELSE LET fd == Head(evs).fd
             bits == Head(evs).events
             here == IF fd = wakeup_fd_ \/ ~Contains(tbl, fd) THEN <<>>
                     ELSE (IF "EPOLLIN" \in bits /\ Contains(tbl[fd], "READ")
                           THEN <<Triple(tbl, fd, "READ")>> ELSE <<>>)
                          \o (IF "EPOLLOUT" \in bits /\ Contains(tbl[fd], "WRITE")
                              THEN <<Triple(tbl, fd, "WRITE")>> ELSE <<>>)
         IN  here \o CollectEpoll(Tail(evs), tbl)

\* The select collection loop over event_callbacks_, visited in the order `order`.
RECURSIVE CollectSelect(_, _, _, _)
CollectSelect(order, tbl, rs, ws) ==
    IF order = <<>> THEN <<>>
    ELSE LET fd == Head(order)
             here == (IF fd \in rs /\ Contains(tbl[fd], "READ")
                      THEN <<Triple(tbl, fd, "READ")>> ELSE <<>>)
                     \o (IF fd \in ws /\ Contains(tbl[fd], "WRITE")
                         THEN <<Triple(tbl, fd, "WRITE")>> ELSE <<>>)
         IN  here \o CollectSelect(Tail(order), tbl, rs, ws)

\* The collection that takes every registered pair of the descriptors it
\* visits, reported ready for the interest or not.
CollectWholeTable ==
    /\ loop_pc = "collecting"
    /\ IF backend = "epoll"
       THEN ready_events' =
               CollectEpoll([i \in DOMAIN events |->
                                [fd |-> events[i].fd, events |-> {"EPOLLIN", "EPOLLOUT"}]],
                            event_callbacks_)
       ELSE \E order \in Orders(DOMAIN event_callbacks_) :
               ready_events' = CollectSelect(order, event_callbacks_,
                                             DOMAIN event_callbacks_, DOMAIN event_callbacks_)
    /\ idx' = 1
    /\ mutex_' = "free"
    /\ loop_pc' = "dispatch"
    /\ UNCHANGED <<backend, dom, is_running_, tableVars, wakeup_pending, ready,
                   events, sel, call, budget, histVars>>

\* The collection that hands the batch to the dispatcher last triple first.
CollectBackwards ==
    /\ loop_pc = "collecting"
    /\ \E b \in IF backend = "epoll"
                THEN {CollectEpoll(events, event_callbacks_)}
                ELSE {CollectSelect(order, event_callbacks_, sel.read_set, sel.write_set) :
                         order \in Orders(DOMAIN event_callbacks_)} :
          ready_events' = [i \in DOMAIN b |-> b[Len(b) + 1 - i]]
    /\ idx' = 1
    /\ mutex_' = "free"
    /\ loop_pc' = "dispatch"
    /\ UNCHANGED <<backend, dom, is_running_, tableVars, wakeup_pending, ready,
                   events, sel, call, budget, histVars>>

\* The collection whose lock guard lives on into the dispatch loop.
CollectHoldingMutex ==
    /\ loop_pc = "collecting"
    /\ IF backend = "epoll"
       THEN ready_events' = CollectEpoll(events, event_callbacks_)
       ELSE \E order \in Orders(DOMAIN event_callbacks_) :
               ready_events' = CollectSelect(order, event_callbacks_,
                                             sel.read_set, sel.write_set)
    /\ idx' = 1
    /\ loop_pc' = "dispatch"
    /\ UNCHANGED <<backend, dom, is_running_, tableVars, mutex_, wakeup_pending, ready,
                   events, sel, call, budget, histVars>>

Collect ==
    /\ loop_pc = "collecting"
    /\ IF backend = "epoll"
       THEN ready_events' = CollectEpoll(events, event_callbacks_)
       ELSE \E order \in Orders(DOMAIN event_callbacks_) :
               ready_events' = CollectSelect(order, event_callbacks_,
                                             sel.read_set, sel.write_set)
    /\ idx' = 1
    /\ mutex_' = "free"
    /\ loop_pc' = "dispatch"
    /\ UNCHANGED <<backend, dom, is_running_, tableVars, wakeup_pending, ready,
                   events, sel, call, budget, histVars>>

\* callback(fd, type) of the next triple of the batch.
Invoke ==
    /\ loop_pc = "dispatch"
    /\ idx <= Len(ready_events)
    /\ loop_pc' = "callback"
    /\ UNCHANGED <<backend, dom, is_running_, tableVars, mutex_, wakeup_pending,
                   ready, events, sel, ready_events, idx, call, budget, histVars>>

\* The return of a callback to a dispatcher that takes the registrations the
\* callback has made into the batch it is going through.
CallbackReturnTakingNew ==
    /\ loop_pc = "callback"
    /\ call["cb"].pc \in {"idle", "done"}
    /\ call' = [call EXCEPT !["cb"] = NoCall]
    /\ idx' = idx + 1
    /\ LET new == {p \in cbAdded : Registered(event_callbacks_, p[1], p[2])}
           o == CHOOSE q \in Orders(new) : TRUE
       IN  ready_events' = ready_events
               \o [i \in DOMAIN o |-> Triple(event_callbacks_, o[i][1], o[i][2])]
    /\ loop_pc' = "dispatch"
    /\ UNCHANGED <<backend, dom, is_running_, tableVars, mutex_, wakeup_pending,
                   ready, events, sel, budget, histVars>>

CallbackReturn ==
    /\ loop_pc = "callback"
    /\ call["cb"].pc \in {"idle", "done"}
    /\ call' = [call EXCEPT !["cb"] = NoCall]
    /\ idx' = idx + 1
    /\ loop_pc' = "dispatch"
    /\ UNCHANGED <<backend, dom, is_running_, tableVars, mutex_, wakeup_pending,
                   ready, events, sel, ready_events, budget, histVars>>

\* The dispatch loop that also ends as soon as the running flag is cleared.
DispatchDoneOrStopped ==
    /\ loop_pc = "dispatch"
    /\ idx > Len(ready_events) \/ ~is_running_
    /\ events' = <<>>
    /\ sel' = NoSel
    /\ ready_events' = <<>>
    /\ idx' = 0
    /\ loop_pc' = "top"
    /\ cbAdded' = {}
    /\ UNCHANGED <<backend, dom, is_running_, tableVars, mutex_, wakeup_pending,
                   ready, call, budget, everReady, quietRemoved, waitAdded, cbRemoved,
                   early_stop, stop_won>>

\* The batch is done: the locals of the iteration go out of scope.
DispatchDone ==
    /\ loop_pc = "dispatch"
    /\ idx > Len(ready_events)
    /\ events' = <<>>
    /\ sel' = NoSel
    /\ ready_events' = <<>>
    /\ idx' = 0
    /\ loop_pc' = "top"
    /\ cbAdded' = {}
    /\ UNCHANGED <<backend, dom, is_running_, tableVars, mutex_, wakeup_pending,
                   ready, call, budget, everReady, quietRemoved, waitAdded, cbRemoved,
                   early_stop, stop_won>>

\* ------------------------------------------------------------------ calls

\* A context can issue a call: the other thread at any time, a callback while
\* it is being run by the dispatcher.
CanCall(c) ==
    /\ call[c].pc \in {"idle", "done"}
    /\ IF c = "cb" THEN budget.cb > 0 /\ loop_pc = "callback" ELSE budget.calls > 0

Spend(c) == IF c = "cb" THEN [budget EXCEPT !.cb = @ - 1] ELSE [budget EXCEPT !.calls = @ - 1]

NewCall(op, pc, fd, type, cb) ==
    [op |-> op, pc |-> pc, fd |-> fd, type |-> type, cb |-> cb, ret |-> "none", path |-> "none"]

\* A call that has returned: its result, and the callback it passed, are known.
Returned(k, ret, path) ==
    [k EXCEPT !.pc = "done", !.ret = ret, !.path = path, !.fd = 0, !.type = "READ"]

PairOf(k) == <<k.fd, k.type>>

\* The pairs of the batch whose callbacks the dispatcher has not reached yet.
Awaiting ==
    {<<ready_events[i].fd, ready_events[i].type>> : i \in (idx + 1)..Len(ready_events)}

\* add_fd: std::lock_guard<std::mutex> lock(mutex_)
AddFdLock(c) ==
    /\ CanCall(c)
    /\ mutex_ = "free"
    /\ \E fd \in dom.fds, type \in EventType, cb \in dom.cbs :
          call' = [call EXCEPT ![c] = NewCall("add_fd", "body", fd, type, cb)]
    /\ mutex_' = c
    /\ budget' = Spend(c)
    /\ UNCHANGED <<backend, dom, is_running_, tableVars, wakeup_pending, ready,
                   loopVars, histVars>>

\* What a call leaves behind when its body is over: it returns at once (no-op
\* or error, the lock guard releases the mutex) or goes on to wakeup().
BodyDone(c, path) ==
    IF path = "full"
    THEN /\ call' = [call EXCEPT ![c].pc = "wake", ![c].path = path]
         /\ UNCHANGED mutex_
    ELSE /\ call' = [call EXCEPT ![c] = Returned(@, IF path = "noop" THEN "true" ELSE "false", path)]
         /\ mutex_' = "free"

AddFdBody(c) ==
    /\ call[c].op = "add_fd"
    /\ call[c].pc = "body"
    /\ LET k == call[c]
       IN  \E path \in {"noop", "error", "full"} :
           /\ IF backend = "epoll"
              THEN \E fails \in dom.fails :
                   LET r == add_fd_epoll(event_callbacks_, epoll_set, k.fd, k.type, k.cb, fails)
                   IN  /\ path = r.path
                       /\ event_callbacks_' = r.tbl
                       /\ epoll_set' = r.set
                       /\ UNCHANGED <<read_set_, write_set_, fds_>>
              ELSE LET r == add_fd_select(event_callbacks_, read_set_, write_set_, fds_,
                                          k.fd, k.type, k.cb)
                   IN  /\ path = r.path
                       /\ event_callbacks_' = r.tbl
                       /\ read_set_' = r.rs
                       /\ write_set_' = r.ws
                       /\ fds_' = r.fds
                       /\ UNCHANGED epoll_set
           /\ BodyDone(c, path)
           /\ quietRemoved' = IF path = "full" THEN quietRemoved \ {PairOf(k)} ELSE quietRemoved
           /\ waitAdded' = IF path = "full" /\ c = "ext" /\ loop_pc = "wait"
                           THEN waitAdded \cup {PairOf(k)} ELSE waitAdded
           /\ cbRemoved' = IF path = "full" THEN cbRemoved \ {PairOf(k)} ELSE cbRemoved
           /\ cbAdded' = IF path = "full" /\ c = "cb" /\ PairOf(k) \notin Awaiting
                         THEN cbAdded \cup {PairOf(k)} ELSE cbAdded
    /\ UNCHANGED <<backend, dom, is_running_, wakeup_pending, ready, loopVars,
                   budget, everReady, early_stop, stop_won>>

\* remove_fd: std::lock_guard<std::mutex> lock(mutex_)
RemoveFdLock(c) ==
    /\ CanCall(c)
    /\ mutex_ = "free"
    /\ \E fd \in dom.fds, type \in EventType :
          call' = [call EXCEPT ![c] = NewCall("remove_fd", "body", fd, type, "cb1")]
    /\ mutex_' = c
    /\ budget' = Spend(c)
    /\ UNCHANGED <<backend, dom, is_running_, tableVars, wakeup_pending, ready,
                   loopVars, histVars>>

\* The pairs a returning remove_fd adds to the history of quiet removals.
QuietAfterRemove(k) ==
    IF k.fd \in everReady THEN quietRemoved ELSE quietRemoved \cup {PairOf(k)}

RemoveFdBody(c) ==
    /\ call[c].op = "remove_fd"
    /\ call[c].pc = "body"
    /\ LET k == call[c]
       IN  \E path \in {"noop", "error", "full"} :
           /\ IF backend = "epoll"
              THEN \E fails \in dom.fails :
                   LET r == remove_fd_epoll(event_callbacks_, epoll_set, k.fd, k.type, fails)
                   IN  /\ path = r.path
                       /\ event_callbacks_' = r.tbl
                       /\ epoll_set' = r.set
                       /\ UNCHANGED <<read_set_, write_set_, fds_>>
              ELSE LET r == remove_fd_select(event_callbacks_, read_set_, write_set_, fds_,
                                             k.fd, k.type)
                   IN  /\ path = r.path
                       /\ event_callbacks_' = r.tbl
                       /\ read_set_' = r.rs
                       /\ write_set_' = r.ws
                       /\ fds_' = r.fds
                       /\ UNCHANGED epoll_set
           /\ BodyDone(c, path)
           /\ quietRemoved' = IF path = "full" THEN quietRemoved ELSE QuietAfterRemove(k)
           /\ waitAdded' = IF path = "noop" THEN waitAdded ELSE waitAdded \ {PairOf(k)}
           /\ cbRemoved' = IF path = "full" /\ c = "cb"
                           THEN cbRemoved \cup {PairOf(k)} ELSE cbRemoved
           /\ cbAdded' = IF path = "noop" THEN cbAdded ELSE cbAdded \ {PairOf(k)}
    /\ UNCHANGED <<backend, dom, is_running_, wakeup_pending, ready, loopVars,
                   budget, everReady, early_stop, stop_won>>

\* stop that returns after the exchange, without the poke.
StopWithoutWakeup(c) ==
    /\ CanCall(c)
    /\ budget' = Spend(c)
    /\ is_running_' = FALSE
    /\ call' = [call EXCEPT ![c] =
                  Returned(NewCall("stop", "body", 0, "READ", "cb1"), "true",
                           IF is_running_ THEN "full" ELSE "noop")]
    /\ stop_won' = (stop_won \/ is_running_)
    /\ early_stop' = (early_stop \/ (~is_running_ /\ loop_pc = "idle"))
    /\ UNCHANGED <<backend, dom, tableVars, mutex_, wakeup_pending, ready, loopVars,
                   everReady, quietRemoved, waitAdded, cbRemoved, cbAdded>>

\* stop that goes on to the poke whatever the exchange returned.
StopAlwaysPoking(c) ==
    /\ CanCall(c)
    /\ budget' = Spend(c)
    /\ is_running_' = FALSE
    /\ call' = [call EXCEPT ![c] = NewCall("stop", "wake", 0, "READ", "cb1")]
    /\ stop_won' = (stop_won \/ is_running_)
    /\ early_stop' = (early_stop \/ (~is_running_ /\ loop_pc = "idle"))
    /\ UNCHANGED <<backend, dom, tableVars, mutex_, wakeup_pending, ready, loopVars,
                   everReady, quietRemoved, waitAdded, cbRemoved, cbAdded>>

\* stop: is_running_.exchange(false)
StopExchange(c) ==
    /\ CanCall(c)
    /\ budget' = Spend(c)
    /\ is_running_' = FALSE
    /\ IF is_running_
       THEN /\ call' = [call EXCEPT ![c] = NewCall("stop", "wake", 0, "READ", "cb1")]
            /\ stop_won' = TRUE
            /\ UNCHANGED early_stop
       ELSE /\ call' = [call EXCEPT ![c] =
                          Returned(NewCall("stop", "body", 0, "READ", "cb1"), "true", "noop")]
            /\ early_stop' = (early_stop \/ loop_pc = "idle")
            /\ UNCHANGED stop_won
    /\ UNCHANGED <<backend, dom, tableVars, mutex_, wakeup_pending, ready, loopVars,
                   everReady, quietRemoved, waitAdded, cbRemoved, cbAdded>>

\* The return of add_fd, remove_fd and stop without the poke.
ReturnWithoutWakeup(c) ==
    /\ call[c].pc = "wake"
    /\ call' = [call EXCEPT ![c] = Returned(@, "true", "full")]
    /\ mutex_' = IF call[c].op = "stop" THEN mutex_ ELSE "free"
    /\ quietRemoved' = IF call[c].op = "remove_fd" THEN QuietAfterRemove(call[c]) ELSE quietRemoved
    /\ UNCHANGED <<backend, dom, is_running_, tableVars, wakeup_pending, ready, loopVars,
                   budget, everReady, waitAdded, cbRemoved, cbAdded, early_stop, stop_won>>

\* The poke that ends add_fd, remove_fd and stop, and the return of the call.
Wakeup(c) ==
    /\ call[c].pc = "wake"
    /\ LET k == call[c]
           w == write_wakeup(wakeup_pending)
           ok == IF k.op = "stop" THEN stop_result(backend, w) ELSE wakeup(w)
       IN  /\ wakeup_pending' = w.pending
           /\ call' = [call EXCEPT ![c] = Returned(@, IF ok THEN "true" ELSE "false", "full")]
           /\ mutex_' = IF k.op = "stop" THEN mutex_ ELSE "free"
           /\ quietRemoved' = IF k.op = "remove_fd" THEN QuietAfterRemove(k) ELSE quietRemoved
    /\ UNCHANGED <<backend, dom, is_running_, tableVars, ready, loopVars, budget,
                   everReady, waitAdded, cbRemoved, cbAdded, early_stop, stop_won>>

\* ------------------------------------------------------------------ environment

\* The peer of a caller's descriptor changes one of its conditions.
EnvChange ==
    /\ budget.envs > 0
    /\ budget' = [budget EXCEPT !.envs = @ - 1]
    /\ \E fd \in DOMAIN ready, cond \in dom.conds :
          /\ ready' = [ready EXCEPT ![fd] = IF cond \in @ THEN @ \ {cond} ELSE @ \cup {cond}]
          /\ everReady' = IF cond \in ready[fd] THEN everReady ELSE everReady \cup {fd}
    /\ UNCHANGED <<backend, dom, is_running_, tableVars, mutex_, wakeup_pending,
                   loopVars, call, quietRemoved, waitAdded, cbRemoved, cbAdded, early_stop, stop_won>>

\* ------------------------------------------------------------------ specifications

LoopStep ==
    \/ Start
    \/ LoopCheck
    \/ SnapshotLock
    \/ SnapshotCopy
    \/ EpollWait
    \/ SelectWait
    \/ Drain
    \/ CollectLock
    \/ Collect
    \/ Invoke
    \/ CallbackReturn
    \/ DispatchDone

Next ==
    \/ LoopStep
    \/ WaitInterrupted
    \/ WaitFail
    \/ EnvChange
    \/ \E c \in Contexts : AddFdLock(c)
    \/ \E c \in Contexts : AddFdBody(c)
    \/ \E c \in Contexts : RemoveFdLock(c)
    \/ \E c \in Contexts : RemoveFdBody(c)
    \/ \E c \in Contexts : StopExchange(c)
    \/ \E c \in Contexts : Wakeup(c)

Spec == Init /\ [][Next]_vars

SpecCallbacks == InitCallbacks /\ [][Next]_vars

SpecAnyFd == InitAnyFd /\ [][Next]_vars

\* The loop thread runs, a call that has started runs to its return and a
\* callback returns; nothing obliges a caller to make a call or the wait to fail.
Fairness ==
    /\ WF_vars(LoopStep)
    /\ \A c \in Contexts : WF_vars(AddFdBody(c) \/ RemoveFdBody(c) \/ Wakeup(c))

SpecLive == InitLive /\ [][Next]_vars /\ Fairness

SpecBigFd == InitBigFd /\ [][Next]_vars

SpecHangup == InitHangup /\ [][Next]_vars

SpecKernelOk == InitKernelOk /\ [][Next]_vars

SpecOneFd == InitOneFd /\ [][Next]_vars /\ Fairness

SpecPokes == InitPokes /\ [][Next]_vars

\* ------------------------------------------------------------------ properties

\* The step in which the body of context c's call runs.
BodyStep(c, op) == call[c].op = op /\ call[c].pc = "body" /\ call'[c].pc # "body"

\* C1: add_fd of a pair that is already registered returns true and leaves the
\* table (the pair still bound to its first callback), the kernel registration,
\* the bitmaps, the multiset and the wakeup channel as they were: add_fd; add_fd
\* leaves the state of a single add_fd.
C1_AddTwiceIsOneAdd ==
    [][\A c \in Contexts :
          (BodyStep(c, "add_fd") /\ Registered(event_callbacks_, call[c].fd, call[c].type))
          => /\ call'[c].pc = "done"
             /\ call'[c].ret = "true"
             /\ UNCHANGED <<tableVars, wakeup_pending>>]_vars

\* A second add_fd that passed another callback has returned, and no pair of
\* the table is bound to the callback it passed.
C1_Witness ==
    \E c \in Contexts :
        /\ call[c].op = "add_fd" /\ call[c].pc = "done" /\ call[c].path = "noop"
        /\ call[c].ret = "true"
        /\ DOMAIN event_callbacks_ # {}
        /\ \A fd \in DOMAIN event_callbacks_ : \A t \in DOMAIN event_callbacks_[fd] :
              event_callbacks_[fd][t] # call[c].cb

\* C2: remove_fd of a pair that is not registered returns true and leaves the
\* table, the kernel registration, the bitmaps and the multiset as they were.
C2_RemoveUnregisteredIsNoOp ==
    [][\A c \in Contexts :
          (BodyStep(c, "remove_fd") /\ ~Registered(event_callbacks_, call[c].fd, call[c].type))
          => /\ call'[c].pc = "done"
             /\ call'[c].ret = "true"
             /\ UNCHANGED <<tableVars, wakeup_pending>>]_vars

\* A remove_fd of an unregistered pair has returned while the table holds
\* registrations.
C2_Witness ==
    \E c \in Contexts :
        /\ call[c].op = "remove_fd" /\ call[c].pc = "done" /\ call[c].path = "noop"
        /\ call[c].ret = "true"
        /\ DOMAIN event_callbacks_ # {}

\* start() is over: it has returned, or it has thrown the failure of the wait.
Terminated == loop_pc \in {"returned", "thrown"}

\* Some stop has been called.
StopCalled == early_stop \/ stop_won

\* C3 as stated: once stop has been called, at any point relative to start,
\* start terminates.
C3_AnyStopEndsStart == (StopCalled /\ loop_pc # "idle") ~> Terminated

\* C3: once a stop has found the running flag set (so after start stored true
\* in it), start terminates, whatever the number of stop calls, and it
\* terminates once: it does not run again.
C3_StopAfterStartEndsStart ==
    /\ stop_won ~> Terminated
    /\ [][Terminated => loop_pc' = loop_pc]_vars

\* start has returned after two stop calls: one that found the flag set and
\* one that found it already cleared.
C3_Witness ==
    /\ loop_pc = "returned"
    /\ stop_won
    /\ ~early_stop
    /\ \E c \in Contexts : call[c].op = "stop" /\ call[c].pc = "done" /\ call[c].path = "noop"

\* The step in which context c's stop finds the loop not running.
StopNotRunningStep(c) ==
    /\ ~is_running_
    /\ call'[c] # call[c]
    /\ call'[c].op = "stop"
    /\ call'[c].path = "noop"

\* C4: a stop that finds the loop not running returns true, leaves the running
\* flag false and writes nothing; a start issued after a stop that preceded it
\* does not return before a later stop has found the flag set, and once such
\* a stop is made it terminates.
C4_StopWhenIdleIsNoOp ==
    /\ [][\A c \in Contexts :
            StopNotRunningStep(c)
            => /\ call'[c].pc = "done" /\ call'[c].ret = "true"
               /\ ~is_running_'
               /\ UNCHANGED <<tableVars, wakeup_pending>>]_vars
    /\ [](loop_pc = "returned" => stop_won)
    /\ (early_stop /\ stop_won) ~> Terminated

\* A stop preceded start, start ran, a later stop found the flag set, and
\* start has returned.
C4_Witness == early_stop /\ stop_won /\ loop_pc = "returned"

\* The descriptor of pair p is ready for the interest of p.
ReadyFor(p) ==
    IF p[2] = "READ" THEN "readable" \in ConditionsOf(p[1]) ELSE "writable" \in ConditionsOf(p[1])

\* The dispatcher is running the callback of pair p.
Invoking(p) ==
    /\ loop_pc = "callback"
    /\ ready_events[idx].fd = p[1]
    /\ ready_events[idx].type = p[2]

\* C5: a pair registered by the other thread while the loop was blocked in
\* the wait, whose descriptor is ready, gets its callback invoked, unless it
\* is removed, stops being ready, or the loop is stopped or fails first.
C5_AddDuringWaitIsObserved ==
    \A p \in UserFds \X EventType :
        (p \in waitAdded /\ ReadyFor(p) /\ is_running_)
        ~> (Invoking(p) \/ p \notin waitAdded \/ ~ReadyFor(p) \/ ~is_running_ \/ Terminated)

\* The callback of a pair registered during the wait is being run.
C5_Witness == \E p \in waitAdded : Invoking(p)

\* The step in which the dispatcher calls the next callback of the batch.
InvokeStep == loop_pc = "dispatch" /\ loop_pc' = "callback"

\* The pair whose callback the dispatcher calls next.
NextPair == <<ready_events[idx].fd, ready_events[idx].type>>

\* C6: after remove_fd of a pair has returned, its descriptor never ready
\* before, the callback of the pair is not invoked, however ready the
\* descriptor becomes, until the pair is registered again.
C6_RemovedBeforeReadyNeverFires ==
    [][InvokeStep => NextPair \notin quietRemoved]_vars

\* The select backend, loop running: the wait has returned on a snapshot taken
\* before the removal, reporting the descriptor of a pair removed before it was
\* ever ready, and the batch collected is empty.
C6_Witness ==
    \E p \in quietRemoved :
        /\ backend = "select"
        /\ is_running_
        /\ loop_pc = "dispatch"
        /\ p[1] \in sel.read_set \cup sel.write_set
        /\ ReadyFor(p)
        /\ ready_events = <<>>

\* C7 as stated: the callback of a pair that a callback has removed is not
\* invoked, in the same batch or later, unless the pair is registered again.
C7_RemovedByCallbackNeverFires ==
    [][InvokeStep => NextPair \notin cbRemoved]_vars

\* C8 as stated (epoll backend): while no add_fd or remove_fd holds the mutex,
\* the kernel holds a registration for exactly the caller descriptors of the
\* table, with the mask of the interests the table holds for each.
C8_KernelMirrorsTable ==
    (backend = "epoll" /\ mutex_ \notin Contexts)
    => \A fd \in UserFds :
          /\ Contains(epoll_set, fd) <=> Contains(event_callbacks_, fd)
          /\ Contains(event_callbacks_, fd) => epoll_set[fd] = EpollMask(event_callbacks_[fd])

\* C9 as stated: a call whose kernel operation fails returns false and leaves
\* the registration table as it was before the call.
C9_FailedCallLeavesTable ==
    [][\A c \in Contexts :
          (call[c].pc = "body" /\ call'[c].path = "error")
          => /\ call'[c].ret = "false"
             /\ UNCHANGED event_callbacks_]_vars

\* C10 as stated: no callback is invoked with the wakeup descriptor as its fd.
C10_WakeupFdNeverDispatched ==
    loop_pc = "callback" => ready_events[idx].fd # wakeup_fd_

\* C11: the loop thread does not hold the table mutex while a callback runs; a
\* call a callback has started (add_fd, remove_fd, stop) returns, and the other
\* thread, when it holds the mutex during a callback, releases it.
C11_MutexFreeDuringCallback ==
    /\ [](loop_pc = "callback" => mutex_ # "loop")
    /\ (call["cb"].pc \in {"body", "wake"}) ~> (call["cb"].pc = "done")
    /\ (loop_pc = "callback" /\ mutex_ = "ext") ~> (mutex_ # "ext")

\* A callback is running, its own add_fd has registered a pair and returned,
\* and the other thread is inside a call, holding the mutex.
C11_Witness ==
    /\ loop_pc = "callback"
    /\ call["cb"].op = "add_fd" /\ call["cb"].pc = "done" /\ call["cb"].path = "full"
    /\ mutex_ = "ext"

\* C12 as stated: a call whose poke finds the wakeup channel full (the write
\* reports "would block") returns true, be it add_fd, remove_fd or stop, in
\* both backends.
C12_WouldBlockIsSuccess ==
    [][\A c \in Contexts :
          (/\ call[c].pc = "wake"
           /\ call'[c].pc = "done"
           /\ write_wakeup(wakeup_pending).errno = "EAGAIN")
          => call'[c].ret = "true"]_vars

\* C13: in the select backend, add_fd of a descriptor at or above FD_SETSIZE
\* returns false with errno EMFILE, leaves the table, the two bitmaps and the
\* multiset as they were and writes no poke.
C13_CeilingRefused ==
    [][\A c \in Contexts :
          (BodyStep(c, "add_fd") /\ backend = "select" /\ call[c].fd >= FD_SETSIZE)
          => /\ call'[c].pc = "done"
             /\ call'[c].ret = "false"
             /\ add_fd_select(event_callbacks_, read_set_, write_set_, fds_,
                              call[c].fd, call[c].type, call[c].cb).errno = "EMFILE"
             /\ UNCHANGED <<tableVars, wakeup_pending>>]_vars

\* The select backend has refused a descriptor while the table holds another,
\* and the loop waits on a snapshot of the bitmaps.
C13_Witness ==
    /\ backend = "select"
    /\ \E c \in Contexts :
          call[c].op = "add_fd" /\ call[c].pc = "done" /\ call[c].path = "error"
    /\ DOMAIN event_callbacks_ # {}
    /\ loop_pc = "wait"

\* The step in which the loop thread collects the batch.
CollectStep == loop_pc = "collecting" /\ loop_pc' = "dispatch"

\* The descriptors for which the wait that has returned reported a hangup.
HangupReported ==
    IF backend = "epoll"
    THEN {events[i].fd : i \in {j \in DOMAIN events : "EPOLLHUP" \in events[j].events}}
    ELSE {fd \in sel.read_set : "hangup" \in ConditionsOf(fd)}

\* C14 as stated: a descriptor for which the wait reported a hangup, and whose
\* READ interest is registered when the batch is collected, has its READ
\* callback in that batch, whether or not it was reported readable too.
C14_HangupIsReadReadiness ==
    [][CollectStep
       => \A fd \in HangupReported :
             Registered(event_callbacks_, fd, "READ")
             => \E i \in DOMAIN ready_events' :
                   ready_events'[i].fd = fd /\ ready_events'[i].type = "READ"]_vars

\* C15 as stated: once start() has thrown the failure of the wait, the running
\* flag is false.
C15_WaitFailureLeavesIdle == loop_pc = "thrown" => ~is_running_

\* The interests the table holds for a descriptor.
InterestsOf(tbl, fd) == IF Contains(tbl, fd) THEN DOMAIN tbl[fd] ELSE {}

\* What context c's add_fd / remove_fd asks of the kernel in the epoll backend.
KernelOpOf(c) ==
    IF call[c].op = "add_fd"
    THEN add_fd_epoll(event_callbacks_, epoll_set, call[c].fd, call[c].type, call[c].cb, FALSE)
    ELSE remove_fd_epoll(event_callbacks_, epoll_set, call[c].fd, call[c].type, FALSE)

\* C16: in the epoll backend, while the kernel operations succeed, a call that
\* changes the table issues ADD exactly when the descriptor had no interest
\* before it, DEL exactly when it has none after it, and MOD otherwise, with
\* the mask of the interests the descriptor has after the call; ADD is issued
\* only for a descriptor the kernel does not hold, MOD and DEL only for one it
\* holds.
C16_KernelOperationFollowsTable ==
    [][\A c \in Contexts :
          (/\ backend = "epoll"
           /\ BodyStep(c, "add_fd") \/ BodyStep(c, "remove_fd")
           /\ KernelOpOf(c).path # "noop")
          => LET r == KernelOpOf(c)
                 fd == call[c].fd
                 before == InterestsOf(event_callbacks_, fd)
                 after == InterestsOf(event_callbacks_', fd)
             IN  /\ r.path = "full"
                 /\ r.op \in {"ADD", "MOD", "DEL"}
                 /\ r.op = "ADD" <=> before = {}
                 /\ r.op = "DEL" <=> after = {}
                 /\ r.op = "MOD" <=> (before # {} /\ after # {})
                 /\ r.op # "DEL" => r.mask = EpollMask(event_callbacks_'[fd])
                 /\ r.op = "ADD" <=> ~Contains(epoll_set, fd)
                 /\ epoll_set' = r.set]_vars

\* A remove_fd has just taken one of the two interests of a descriptor: the
\* kernel was asked for ADD, then MOD for the second interest, then MOD with
\* the mask of the interest that is left.
C16_Witness ==
    /\ backend = "epoll"
    /\ \E c \in Contexts :
          /\ call[c].op = "remove_fd" /\ call[c].pc = "wake"
          /\ Cardinality(InterestsOf(event_callbacks_, call[c].fd)) = 1
          /\ epoll_set[call[c].fd] = EpollMask(event_callbacks_[call[c].fd])

\* C17: a pair registered by a callback while a batch is dispatched (and not
\* already awaiting its turn in the batch under an earlier registration) is
\* not invoked in that batch: the dispatcher invokes only what it collected
\* after the wait returned, and collects again only after the next wait.
C17_AddedByCallbackWaitsForNextBatch ==
    /\ [][InvokeStep => NextPair \notin cbAdded]_vars
    /\ [][(loop_pc \in {"dispatch", "callback"} /\ ready_events' # ready_events)
          => (loop_pc' = "top" /\ ready_events' = <<>>)]_vars

\* The dispatcher has reached the end of a batch in which a callback registered
\* a pair whose descriptor is ready for it, and has not invoked it.
C17_Witness ==
    /\ loop_pc = "dispatch"
    /\ idx > Len(ready_events)
    /\ \E p \in cbAdded : Registered(event_callbacks_, p[1], p[2]) /\ ReadyFor(p)

\* The position of a descriptor in the array epoll_wait filled.
ReportIndex(fd) == CHOOSE i \in DOMAIN events : events[i].fd = fd

\* C18: the batch lists the descriptors in the order in which the wait
\* reported them (the events array of epoll_wait; select reports bitmaps, and
\* the batch follows the visit of the table), the READ triple of a descriptor
\* comes immediately before its WRITE triple, and the dispatcher invokes the
\* triples of the batch one after the other from the first.
C18_BatchOrder ==
    /\ [][CollectStep
          => LET b == ready_events'
             IN  /\ idx' = 1
                 /\ \A i, j \in DOMAIN b :
                       (i < j /\ backend = "epoll")
                       => ReportIndex(b[i].fd) <= ReportIndex(b[j].fd)
                 /\ \A i, j \in DOMAIN b :
                       (i < j /\ b[i].fd = b[j].fd)
                       => (b[i].type = "READ" /\ b[j].type = "WRITE" /\ j = i + 1)]_vars
    /\ [][(loop_pc = "callback" /\ loop_pc' # "callback")
          => (idx' = idx + 1 /\ ready_events' = ready_events)]_vars
    /\ [][InvokeStep => UNCHANGED <<idx, ready_events>>]_vars

\* The WRITE callback of a descriptor is running as the second of a batch
\* whose first is the READ callback of the same descriptor.
C18_Witness ==
    /\ loop_pc = "callback"
    /\ idx = 2
    /\ ready_events[1].fd = ready_events[2].fd
    /\ ready_events[1].type = "READ"
    /\ ready_events[2].type = "WRITE"

\* C19 as stated: while the mutex is free, every descriptor of the table has
\* at least one interest registered.
C19_NoEmptyInterestMap ==
    mutex_ = "free" => \A fd \in DOMAIN event_callbacks_ : DOMAIN event_callbacks_[fd] # {}

\* C20 as stated: the read side of the wakeup channel stays registered for
\* READ: in the kernel's interest list with EPOLLIN (epoll), set in the read
\* bitmap (select).
C20_WakeupFdStaysRegistered ==
    IF backend = "epoll"
    THEN Contains(epoll_set, wakeup_fd_) /\ "EPOLLIN" \in epoll_set[wakeup_fd_]
    ELSE wakeup_fd_ \in read_set_

\* The descriptors of the table registered for an interest.
RegisteredFor(type) == {fd \in DOMAIN event_callbacks_ : Contains(event_callbacks_[fd], type)}

\* The step in which the select loop copies the ceiling and the bitmaps.
SnapshotStep == loop_pc = "snapshot_locked" /\ loop_pc' = "wait"

\* C21 as stated: in the select backend, while the mutex is free, the read bitmap is the
\* set of the descriptors registered for READ plus the wakeup descriptor and
\* the write bitmap is the set of the descriptors registered for WRITE; the
\* copies the wait works on are taken from them while the loop thread holds
\* the mutex.
C21_BitmapsMatchTable ==
    /\ [](backend = "select" /\ mutex_ = "free"
          => /\ read_set_ = RegisteredFor("READ") \cup {wakeup_fd_}
             /\ write_set_ = RegisteredFor("WRITE"))
    /\ [][SnapshotStep
          => /\ mutex_ = "loop"
             /\ sel'.read_set = read_set_
             /\ sel'.write_set = write_set_]_vars

\* C22: in the select backend, while the mutex is free, the multiset holds
\* each descriptor once per interest registered for it, and the wakeup
\* descriptor once more; the ceiling the loop copies for the wait is the
\* largest of the registered descriptors and the wakeup descriptor (select
\* is passed that plus one).
C22_MultisetCountsInterests ==
    /\ [](backend = "select" /\ mutex_ = "free"
          => /\ DOMAIN fds_ = DOMAIN event_callbacks_ \cup {wakeup_fd_}
             /\ \A fd \in DOMAIN fds_ :
                   fds_[fd] = Cardinality(InterestsOf(event_callbacks_, fd))
                              + (IF fd = wakeup_fd_ THEN 1 ELSE 0))
    /\ [][SnapshotStep
          => sel'.max_fd = SetMax(DOMAIN event_callbacks_ \cup {wakeup_fd_})]_vars

\* The select loop waits with a ceiling above the wakeup descriptor, for a
\* descriptor that keeps one of the two interests it had.
C22_Witness ==
    /\ backend = "select"
    /\ loop_pc = "wait"
    /\ sel.max_fd > wakeup_fd_
    /\ \E c \in Contexts :
          call[c].op = "remove_fd" /\ call[c].pc = "done" /\ call[c].path = "full"
    /\ Contains(fds_, sel.max_fd) /\ fds_[sel.max_fd] = 1
    /\ budget.calls = 0 /\ budget.cb = 0
    /\ Cardinality(DOMAIN event_callbacks_) = 1

\* Context c is inside add_fd or remove_fd, between the lock guard and the return.
InCall(c) == call[c].op \in {"add_fd", "remove_fd"} /\ call[c].pc \in {"body", "wake"}

\* The loop thread is inside the snapshot block or the collection block.
LoopInBlock == loop_pc \in {"snapshot_locked", "collecting"}

\* C23: a context inside add_fd or remove_fd holds the mutex, and so does the
\* loop thread inside its snapshot and collection blocks, so no two of them
\* are there at the same time; the table, the bitmaps, the multiset and the
\* kernel's interest list change only in a step of a context that holds the
\* mutex, and the loop thread reads them only while it holds it.
C23_TableAccessUnderMutex ==
    /\ [](\A c \in Contexts : InCall(c) => mutex_ = c)
    /\ [](LoopInBlock => mutex_ = "loop")
    /\ [](Cardinality({c \in Contexts : InCall(c)}) + (IF LoopInBlock THEN 1 ELSE 0) <= 1)
    /\ [][tableVars' # tableVars => \E c \in Contexts : mutex_ = c /\ InCall(c)]_vars
    /\ [][(CollectStep \/ SnapshotStep) => mutex_ = "loop"]_vars

\* The loop thread is at the door of its collection block while the other
\* thread, inside remove_fd, holds the mutex and has changed the table.
C23_Witness ==
    /\ loop_pc = "collect"
    /\ mutex_ = "ext"
    /\ call["ext"].op = "remove_fd" /\ call["ext"].pc = "wake"

\* The step in which context c calls stop before start has been entered.
StopBeforeStartStep(c) == loop_pc = "idle" /\ call'[c] # call[c] /\ call'[c].op = "stop"

\* The only call made so far is a stop that preceded start.
OnlyEarlyStop == early_stop /\ budget.calls = MaxCalls - 1 /\ budget.cb = MaxCbCalls

\* C24 as stated: a stop issued before start leaves the running flag false
\* and writes one poke to the wakeup channel.
C24_StopBeforeStartPokes ==
    [][\A c \in Contexts :
          StopBeforeStartStep(c)
          => (~is_running_' /\ wakeup_pending' = wakeup_pending + 1)]_vars

\* C24: a stop issued before start returns true at once, leaves the running
\* flag false and writes nothing to the wakeup channel; a start that follows
\* it finds no poke of it pending and is not made to return by it.
C24_StopBeforeStartWritesNothing ==
    /\ [][\A c \in Contexts :
            StopBeforeStartStep(c)
            => /\ call'[c].pc = "done" /\ call'[c].ret = "true"
               /\ ~is_running_'
               /\ UNCHANGED <<wakeup_pending, tableVars>>]_vars
    /\ [](OnlyEarlyStop => wakeup_pending = 0)
    /\ [](OnlyEarlyStop => loop_pc # "returned")
    /\ [](OnlyEarlyStop /\ loop_pc \notin {"idle", "thrown"} => is_running_)

\* After a stop that preceded it, start is blocked in its first wait: the
\* flag is set and no poke is pending.
C24_Witness ==
    /\ OnlyEarlyStop
    /\ loop_pc = "wait"
    /\ is_running_
    /\ wakeup_pending = 0
    /\ \A fd \in DOMAIN ready : ready[fd] = {}

\* The step in which a signal interrupts the wait.
InterruptStep == loop_pc = "wait" /\ budget'.envs < budget.envs /\ ready' = ready

\* C25: when a signal interrupts the wait, the loop thread goes back to the
\* test of the running flag with no batch, no callback invoked and nothing
\* changed; from that test it waits again if the flag is set, and returns
\* only if a stop has cleared it; start() throws only when a wait fails
\* otherwise.
C25_InterruptedWaitIsRetried ==
    /\ [][InterruptStep
          => /\ loop_pc' = "top"
             /\ ready_events' = <<>>
             /\ UNCHANGED <<is_running_, tableVars, wakeup_pending, idx, call>>]_vars
    /\ [][(loop_pc = "top" /\ loop_pc' # "top")
          => IF is_running_ THEN loop_pc' \in {"wait", "snapshot"}
                            ELSE loop_pc' = "returned" /\ stop_won]_vars
    /\ [][(loop_pc' = "thrown" /\ loop_pc # "thrown")
          => (loop_pc = "wait" /\ budget' = budget)]_vars

\* The loop is blocked in the wait again after signals have used up the
\* environment's budget, no descriptor having ever been ready.
C25_Witness ==
    /\ loop_pc = "wait"
    /\ is_running_
    /\ budget.envs = 0
    /\ everReady = {}
    /\ \A fd \in DOMAIN ready : ready[fd] = {}

\* The wait that has returned reported the wakeup descriptor ready.
WakeupReported ==
    IF backend = "epoll"
    THEN \E i \in DOMAIN events : events[i].fd = wakeup_fd_
    ELSE wakeup_fd_ \in sel.read_set

\* The step in which the loop thread drains the wakeup channel.
DrainStep == loop_pc = "drain" /\ loop_pc' = "collect"

\* The step in which the wait returns with ready descriptors.
WaitReturnStep == loop_pc = "wait" /\ loop_pc' = "drain"

\* C26: after a wait that reported the wakeup descriptor, the drain leaves the
\* channel empty, however many pokes were pending; the wait reports the wakeup
\* descriptor only while a poke is pending, so the pokes drained cause no
\* further return; and only the drain takes pokes out of the channel, so a
\* poke written after it (one more pending, unless the channel is full) is
\* pending at the next wait.
C26_DrainEmptiesChannel ==
    /\ [][(DrainStep /\ WakeupReported) => wakeup_pending' = 0]_vars
    /\ [][WaitReturnStep => (WakeupReported' <=> wakeup_pending > 0)]_vars
    /\ [][wakeup_pending' < wakeup_pending => DrainStep]_vars
    /\ [][\A c \in Contexts :
            (call[c].pc = "wake" /\ call'[c].pc = "done")
            => wakeup_pending' = IF wakeup_pending < WakeupCap
                                 THEN wakeup_pending + 1 ELSE wakeup_pending]_vars

\* The loop is blocked in the wait, the channel empty, after the two pokes of
\* two registrations were drained and with no descriptor ready.
C26_Witness ==
    /\ loop_pc = "wait"
    /\ is_running_
    /\ wakeup_pending = 0
    /\ budget.calls = 0 /\ budget.cb = MaxCbCalls
    /\ Cardinality(DOMAIN event_callbacks_) = 2
    /\ \A fd \in DOMAIN ready : ready[fd] = {}

\* The pairs the wait that has returned reported ready.
ReportedPairs ==
    IF backend = "epoll"
    THEN {<<events[i].fd, "READ">> : i \in {j \in DOMAIN events : "EPOLLIN" \in events[j].events}}
         \cup {<<events[i].fd, "WRITE">> : i \in {j \in DOMAIN events : "EPOLLOUT" \in events[j].events}}
    ELSE {<<fd, "READ">> : fd \in sel.read_set} \cup {<<fd, "WRITE">> : fd \in sel.write_set}

\* The loop thread is going through a batch.
Dispatching == loop_pc \in {"dispatch", "callback"}

\* C27: the batch collected under the mutex holds exactly the pairs the wait
\* reported ready that the table holds at that moment, each once, with the
\* callback the table binds it to; the dispatcher goes through that batch,
\* unchanged, one triple after the other to its end, calling the callback of
\* each triple with the triple's descriptor and interest.
C27_BatchIsReadyAndRegistered ==
    /\ [][CollectStep
          => LET b == ready_events'
             IN  /\ {<<b[i].fd, b[i].type>> : i \in DOMAIN b}
                      = {p \in ReportedPairs : Registered(event_callbacks_, p[1], p[2])}
                 /\ \A i, j \in DOMAIN b :
                       (b[i].fd = b[j].fd /\ b[i].type = b[j].type) => i = j
                 /\ \A i \in DOMAIN b : b[i].cb = event_callbacks_[b[i].fd][b[i].type]]_vars
    /\ [][(Dispatching /\ Dispatching')
          => /\ ready_events' = ready_events
             /\ idx' = IF loop_pc = "callback" /\ loop_pc' = "dispatch" THEN idx + 1 ELSE idx]_vars
    /\ [][(Dispatching /\ ~Dispatching') => idx > Len(ready_events)]_vars
    /\ [](loop_pc = "callback" => idx \in DOMAIN ready_events)

\* The dispatcher is at the end of a batch that held a callback while another
\* registered pair, not reported ready, was left out of it.
C27_Witness ==
    /\ loop_pc = "dispatch"
    /\ idx > Len(ready_events)
    /\ Len(ready_events) >= 1
    /\ \E fd \in DOMAIN event_callbacks_ : \E t \in DOMAIN event_callbacks_[fd] :
          /\ \A i \in DOMAIN ready_events : <<ready_events[i].fd, ready_events[i].type>> # <<fd, t>>
          /\ event_callbacks_[fd][t] # ready_events[1].cb

\* A stop called by the callback that is running has cleared the running flag.
StoppedInCallback ==
    /\ loop_pc = "callback"
    /\ call["cb"].op = "stop" /\ call["cb"].pc = "done" /\ call["cb"].path = "full"

\* C28: once the running flag is cleared while a batch is dispatched, as by a
\* stop called from a callback, the dispatcher still calls the callbacks that
\* are left and leaves the batch only at its end, for the test of the flag;
\* from there start() returns, without another wait.
C28_StopInCallbackFinishesBatch ==
    /\ [](loop_pc = "dispatch" /\ idx <= Len(ready_events) => ENABLED Invoke)
    /\ [][(Dispatching /\ ~is_running_ /\ ~Dispatching')
          => (idx > Len(ready_events) /\ loop_pc' = "top")]_vars
    /\ [][(~is_running_ /\ loop_pc \in {"dispatch", "callback", "top"})
          => loop_pc' \in {"dispatch", "callback", "top", "returned"}]_vars
    /\ StoppedInCallback ~> (loop_pc = "returned")
    /\ (Dispatching /\ ~is_running_) ~> (loop_pc = "returned")

\* The second callback of a batch of two is running after the first one
\* called stop, which cleared the running flag.
C28_Witness ==
    /\ loop_pc = "callback"
    /\ idx = 2
    /\ Len(ready_events) = 2
    /\ ~is_running_
    /\ stop_won
    /\ budget.calls = 0 /\ budget.cb = 0
    /\ call["ext"].op = "add_fd"

====
